---- MODULE Spec2Model ----
(***************************************************************************)
(* Model of backend/navi_volo_api.py: synthetic history generation, the    *)
(* pool and rewards fetchers, the stake predictor and the three HTTP       *)
(* endpoints.  The service keeps no state between requests, so a behaviour *)
(* is one call: Init draws the operation and its inputs (arguments, clock, *)
(* upstream HTTP outcome, request body) and one action per function        *)
(* computes what the code returns.                                         *)
(*                                                                         *)
(* Numbers.  Python floats are modelled as exact signed decimals           *)
(*   [s |-> sign, m |-> limbs, e |-> decimals]   value = s * m / 10^e      *)
(* where m is a little-endian sequence of base-10^6 limbs (TLC integers    *)
(* are 32 bit and the default totalSupplyAmount is 52969686454591258).     *)
(* Strings that the code inspects character by character (float(...),      *)
(* str.endswith) are sequences of one-character strings.                   *)
(***************************************************************************)
EXTENDS Integers, Sequences, FiniteSets, TLC

VARIABLES pc, op, pool_id, days, now, upstream, latest_data, user_address,
          df, body, ret, fitted

vars == <<pc, op, pool_id, days, now, upstream, latest_data, user_address,
          df, body, ret, fitted>>

(***************************************************************************)
(* Bounds of the model.                                                    *)
(***************************************************************************)
MaxDays == 9
MaxPools == 2
MaxRewards == 2
MaxLen == 6

(***************************************************************************)
(* Exact decimals.                                                         *)
(***************************************************************************)
RECURSIVE IntLimbs(_)
IntLimbs(n) ==
    IF n = 0 THEN <<>> ELSE <<n % 1000000>> \o IntLimbs(n \div 1000000)

\* limbs * f + c
RECURSIVE MulAdd(_, _, _)
MulAdd(limbs, f, c) ==
    IF limbs = <<>>
    THEN IntLimbs(c)
    ELSE LET t == Head(limbs) * f + c
         IN  <<t % 1000000>> \o MulAdd(Tail(limbs), f, t \div 1000000)

RECURSIVE Pow10Limbs(_, _)
Pow10Limbs(limbs, k) ==
    IF k = 0 THEN limbs ELSE Pow10Limbs(MulAdd(limbs, 10, 0), k - 1)

Dec(s, m, e) == [s |-> s, m |-> m, e |-> e]

DecInt(n) == IF n < 0 THEN Dec(-1, IntLimbs(-n), 0) ELSE Dec(1, IntLimbs(n), 0)

\* float equality: same value, whatever the number of written decimals
DecEq(a, b) ==
    LET e == IF a.e > b.e THEN a.e ELSE b.e
        ma == Pow10Limbs(a.m, e - a.e)
        mb == Pow10Limbs(b.m, e - b.e)
    IN  /\ ma = mb
        /\ (ma = <<>> \/ a.s = b.s)

\* x * (f / 10^fe) for a small positive integer f
DecScale(x, f, fe) == Dec(x.s, MulAdd(x.m, f, 0), x.e + fe)

\* x / 1e9
DecDivE9(x) == Dec(x.s, x.m, x.e + 9)

RECURSIVE LimbsToInt(_)
LimbsToInt(limbs) ==
    IF limbs = <<>> THEN 0 ELSE Head(limbs) + 1000000 * LimbsToInt(Tail(limbs))

(***************************************************************************)
(* JSON values and Python's get / float / int on them.                     *)
(***************************************************************************)
EmptyDict == [k \in {} |-> 0]

JNum(d) == [t |-> "num", n |-> d, s |-> <<>>]
JStr(chars) == [t |-> "str", n |-> Dec(1, <<>>, 0), s |-> chars]

\* dict.get(key, default)
Get(d, key, default) == IF key \in DOMAIN d THEN d[key] ELSE default

Digits == <<"0", "1", "2", "3", "4", "5", "6", "7", "8", "9">>

IsDigit(c) == \E i \in 1..10 : Digits[i] = c

DigitVal(c) == (CHOOSE i \in 1..10 : Digits[i] = c) - 1

RECURSIVE DigitLimbs(_, _)
DigitLimbs(chars, acc) ==
    IF chars = <<>> THEN acc
    ELSE DigitLimbs(Tail(chars), MulAdd(acc, 10, DigitVal(Head(chars))))

Unsigned(chars) ==
    IF chars # <<>> /\ Head(chars) = "-" THEN Tail(chars) ELSE chars

DotAt(chars) ==
    IF \E i \in 1..Len(chars) : chars[i] = "."
    THEN CHOOSE i \in 1..Len(chars) :
            chars[i] = "." /\ \A j \in 1..(i - 1) : chars[j] # "."
    ELSE Len(chars) + 1

IntDigits(chars) == SubSeq(Unsigned(chars), 1, DotAt(Unsigned(chars)) - 1)

FracDigits(chars) ==
    SubSeq(Unsigned(chars), DotAt(Unsigned(chars)) + 1, Len(Unsigned(chars)))

\* the strings float() accepts, among those that occur here:
\* [-]digits[.digits] with at least one digit
IsFloatLiteral(chars) ==
    LET ds == IntDigits(chars) \o FracDigits(chars)
    IN  /\ ds # <<>>
        /\ \A i \in 1..Len(ds) : IsDigit(ds[i])

ParseFloat(chars) ==
    Dec(IF chars # <<>> /\ Head(chars) = "-" THEN -1 ELSE 1,
        DigitLimbs(IntDigits(chars) \o FracDigits(chars), <<>>),
        Len(FracDigits(chars)))

\* float(x) raises ValueError on a non-numeric string
FloatRaises(j) == j.t = "str" /\ ~IsFloatLiteral(j.s)

PyFloat(j) == IF j.t = "num" THEN j.n ELSE ParseFloat(j.s)

RECURSIVE IntDigitsOf(_)
IntDigitsOf(n) ==
    IF n < 10 THEN <<Digits[n + 1]>>
    ELSE IntDigitsOf(n \div 10) \o <<Digits[(n % 10) + 1]>>

\* str(int(datetime.now().timestamp() * 1000))
NowString == JStr(IntDigitsOf(now))

(***************************************************************************)
(* Default snapshot values.                                                *)
(***************************************************************************)
DefaultApy == Dec(1, <<4908>>, 3)
DefaultTotalSupplyAmount == Dec(1, <<591258, 686454, 52969>>, 0)
DefaultPrice == Dec(1, <<833514, 434>>, 8)
DefaultTokenPrice == Dec(1, <<98488, 426003, 144>>, 15)
DefaultDays == 30

(***************************************************************************)
(* simulate_historical_data                                                *)
(***************************************************************************)
NoneDf == [isNone |-> TRUE, rows |-> <<>>]

RawTimestamp(d) == Get(d, "lastUpdateTimestamp", NowString)
RawApy(d) == Get(Get(d, "supplyIncentiveApyInfo", EmptyDict), "apy", JNum(DefaultApy))
RawTotalSupply(d) == Get(d, "totalSupplyAmount", JNum(DefaultTotalSupplyAmount))
RawPrice(d) == Get(Get(d, "oracle", EmptyDict), "price", JNum(DefaultPrice))

\* str / 1000 is a TypeError; float() of a non-numeric string a ValueError
SimulateRaises(d) ==
    \/ RawTimestamp(d).t = "str"
    \/ FloatRaises(RawApy(d))
    \/ FloatRaises(RawTotalSupply(d))
    \/ FloatRaises(RawPrice(d))

\* int(ms / 1000), seconds of the local base time
BaseTime(d) == LimbsToInt(RawTimestamp(d).n.m) \div 1000

\* variant: the cycles start one day late
HistoryRowShifted(d, i) ==
    [timestamp |-> BaseTime(d) - i * 86400,
     apr       |-> DecScale(PyFloat(RawApy(d)), 100 + ((i + 1) % 5), 2),
     tvl       |-> DecScale(DecDivE9(PyFloat(RawTotalSupply(d))), 1000 - 5 * (i % 7), 3),
     sui_price |-> DecScale(PyFloat(RawPrice(d)), 100 + 2 * (i % 3), 2)]

HistoryRow(d, i) ==
    [timestamp |-> BaseTime(d) - i * 86400,
     apr       |-> DecScale(PyFloat(RawApy(d)), 100 + (i % 5), 2),
     tvl       |-> DecScale(DecDivE9(PyFloat(RawTotalSupply(d))), 1000 - 5 * (i % 7), 3),
     sui_price |-> DecScale(PyFloat(RawPrice(d)), 100 + 2 * (i % 3), 2)]

simulate_historical_data(d, n) ==
    IF SimulateRaises(d) THEN NoneDf
    ELSE [isNone |-> FALSE,
          rows   |-> [k \in 1..(IF n > 0 THEN n ELSE 0) |-> HistoryRow(d, k - 1)]]

(***************************************************************************)
(* Results.  A result is a (body, status) pair; keys is the set of keys of *)
(* a JSON-object body.  The error texts of the code are named here:        *)
(*   pools_http        "無法獲取Navi Pools數據: HTTP <code>"   (line 64)     *)
(*   simulate_failed   "數據模擬失敗"                          (line 71)     *)
(*   default_failed    "預設數據模擬失敗"                      (line 91)     *)
(*   fetch_failed      "獲取數據失敗: <exception>"             (line 104)    *)
(*   missing_address   "缺少user_address參數"                  (line 171)    *)
(*   invalid_input     "無效輸入數據"                          (line 202)    *)
(*   predict_failed    "預測失敗: <exception>"                 (line 205)    *)
(***************************************************************************)
NoLatest ==
    [apr |-> Dec(1, <<>>, 0), tvl |-> Dec(1, <<>>, 0),
     sui_price |-> Dec(1, <<>>, 0), timestamp |-> JStr(<<>>)]

NoRet ==
    [status |-> 0, keys |-> {}, error |-> "", code |-> 0, latest |-> NoLatest,
     rows |-> <<>>, isNone |-> FALSE, isArray |-> FALSE, rewards |-> <<>>,
     predict |-> FALSE]

ErrorRet(msg, code, status) ==
    [NoRet EXCEPT !.status = status, !.keys = {"error"}, !.error = msg,
                  !.code = code]

PoolRet(latest, rows) ==
    [NoRet EXCEPT !.status = 200, !.keys = {"latest", "historical"},
                  !.latest = latest, !.rows = rows]

(***************************************************************************)
(* fetch_volo_data                                                         *)
(***************************************************************************)
\* pool.get("coinType") == pool_id
CoinTypeIs(entry, pid) ==
    "coinType" \in DOMAIN entry.d /\ entry.d["coinType"] = JStr(pid)

\* the index at which the scan of line 67 stops: the first entry that is
\* not an object (pool.get raises) or whose coinType equals pool_id;
\* 0 when the loop runs to its end
ScanStop(data, pid) ==
    IF \E i \in 1..Len(data) : ~data[i].isDict \/ CoinTypeIs(data[i], pid)
    THEN CHOOSE i \in 1..Len(data) :
            /\ ~data[i].isDict \/ CoinTypeIs(data[i], pid)
            /\ \A j \in 1..(i - 1) : data[j].isDict /\ ~CoinTypeIs(data[j], pid)
    ELSE 0

default_data ==
    [lastUpdateTimestamp    |-> NowString,
     supplyIncentiveApyInfo |-> [apy |-> JStr(<<"4", ".", "9", "0", "8">>)],
     totalSupplyAmount      |-> JStr(<<"5", "2", "9", "6", "9", "6", "8", "6", "4",
                                       "5", "4", "5", "9", "1", "2", "5", "8">>),
     oracle                 |-> [price |-> JStr(<<"4", ".", "3", "4", "8", "3",
                                                  "3", "5", "1", "4">>)]]

MatchedPool(pool, n) ==
    LET sim == simulate_historical_data(pool, n)
    IN  IF sim.isNone THEN ErrorRet("simulate_failed", 0, 500)
        \* df['apr'][0] in the log line is a KeyError on an empty frame
        ELSE IF sim.rows = <<>> THEN ErrorRet("fetch_failed", 0, 500)
        ELSE PoolRet([apr       |-> PyFloat(RawApy(pool)),
                      tvl       |-> DecDivE9(PyFloat(RawTotalSupply(pool))),
                      sui_price |-> PyFloat(RawPrice(pool)),
                      timestamp |-> RawTimestamp(pool)],
                     sim.rows)

DefaultPool(n) ==
    LET sim == simulate_historical_data(default_data, n)
    IN  IF sim.isNone THEN ErrorRet("default_failed", 0, 500)
        ELSE PoolRet([apr       |-> DefaultApy,
                      tvl       |-> DecDivE9(DefaultTotalSupplyAmount),
                      sui_price |-> DefaultPrice,
                      timestamp |-> default_data["lastUpdateTimestamp"]],
                     sim.rows)

\* variant: the status of the response is not looked at
fetch_volo_data_unchecked(up, pid, n) ==
    IF up.kind \in {"timeout", "transport"} THEN ErrorRet("fetch_failed", 0, 500)
    ELSE IF up.kind = "badjson" THEN ErrorRet("fetch_failed", 0, 500)
    ELSE LET stop == ScanStop(up.data, pid)
         IN  IF stop = 0 THEN DefaultPool(n)
             ELSE IF ~up.data[stop].isDict THEN ErrorRet("fetch_failed", 0, 500)
             ELSE MatchedPool(up.data[stop].d, n)

fetch_volo_data(up, pid, n) ==
    IF up.kind \in {"timeout", "transport"} THEN ErrorRet("fetch_failed", 0, 500)
    ELSE IF up.status # 200 THEN ErrorRet("pools_http", up.status, 500)
    ELSE IF up.kind = "badjson" THEN ErrorRet("fetch_failed", 0, 500)
    ELSE LET stop == ScanStop(up.data, pid)
         IN  IF stop = 0 THEN DefaultPool(n)
             ELSE IF ~up.data[stop].isDict THEN ErrorRet("fetch_failed", 0, 500)
             ELSE MatchedPool(up.data[stop].d, n)

RewardsRet(rewards) ==
    [NoRet EXCEPT !.status = 200, !.isArray = TRUE, !.rewards = rewards]

PredictRet(b) ==
    [NoRet EXCEPT !.status = 200, !.keys = {"predict"}, !.predict = b]

(***************************************************************************)
(* fetch_rewards                                                           *)
(***************************************************************************)
NavxSuffix == <<":", ":", "n", "a", "v", "x", ":", ":", "N", "A", "V", "X">>

\* str.endswith
EndsWith(chars, suffix) ==
    /\ Len(chars) >= Len(suffix)
    /\ SubSeq(chars, Len(chars) - Len(suffix) + 1, Len(chars)) = suffix

RewardPoolIs(r, pid) == Get(r, "pool", JStr(<<>>)) = JStr(pid)

RewardCoinType(r) == Get(r, "coin_type", JStr(<<>>))

\* variant: the token suffix is not looked at
RewardSelectedAnyToken(r, pid) == RewardPoolIs(r, pid)

\* the filter of line 125
RewardSelected(r, pid) ==
    RewardPoolIs(r, pid) /\ EndsWith(RewardCoinType(r).s, NavxSuffix)

RewardAmount(r) == Get(r, "amount", JNum(DecInt(0)))

RewardTokenPrice(r) == Get(r, "token_price", JNum(DefaultTokenPrice))

\* what makes the comprehension of lines 118-126 raise on one record:
\* .get on a non-object, .endswith on a non-string, float() of a bad string
RewardRaises(entry, pid) ==
    \/ ~entry.isDict
    \/ RewardPoolIs(entry.d, pid) /\ RewardCoinType(entry.d).t # "str"
    \/ /\ RewardSelected(entry.d, pid)
       /\ FloatRaises(RewardAmount(entry.d)) \/ FloatRaises(RewardTokenPrice(entry.d))

RewardRecord(r) ==
    [amount      |-> DecDivE9(PyFloat(RewardAmount(r))),
     timestamp   |-> Get(r, "timestamp", JStr(<<>>)),
     token_price |-> PyFloat(RewardTokenPrice(r))]

RECURSIVE FilterRewards(_, _)
FilterRewards(data, pid) ==
    IF data = <<>> THEN <<>>
    ELSE (IF RewardSelected(Head(data).d, pid)
          THEN <<RewardRecord(Head(data).d)>> ELSE <<>>)
         \o FilterRewards(Tail(data), pid)

\* variant: failures are surfaced the way fetch_volo_data surfaces them
fetch_rewards_surfacing(up, pid) ==
    IF up.kind \in {"timeout", "transport"} THEN ErrorRet("fetch_failed", 0, 500)
    ELSE IF up.status # 200 THEN ErrorRet("rewards_http", up.status, 500)
    ELSE IF up.kind = "badjson" THEN ErrorRet("fetch_failed", 0, 500)
    ELSE IF \E i \in 1..Len(up.data) : RewardRaises(up.data[i], pid)
    THEN ErrorRet("fetch_failed", 0, 500)
    ELSE RewardsRet(FilterRewards(up.data, pid))

fetch_rewards(up, pid) ==
    IF up.kind \in {"timeout", "transport"} THEN RewardsRet(<<>>)
    ELSE IF up.status # 200 THEN RewardsRet(<<>>)
    ELSE IF up.kind = "badjson" THEN RewardsRet(<<>>)
    ELSE IF \E i \in 1..Len(up.data) : RewardRaises(up.data[i], pid)
    THEN RewardsRet(<<>>)
    ELSE RewardsRet(FilterRewards(up.data, pid))

(***************************************************************************)
(* predict_optimal_stake.  A data frame is None or a sequence of rows with *)
(* integer apr, tvl, sui_price.  LinearRegression().fit centres X and y    *)
(* and takes the minimum-norm least-squares solution; with                 *)
(*   a_i = n*sui_price_i - sum(sui_price),  b_i = n*tvl_i - sum(tvl),      *)
(*   c_i = n*apr_i - sum(apr)                                              *)
(* the prediction for the last row is mean(apr) + G / (n * Dn), where      *)
(* G / Dn is computed below for each rank of the centred X.                *)
(***************************************************************************)
RECURSIVE Sum(_)
Sum(xs) == IF xs = <<>> THEN 0 ELSE Head(xs) + Sum(Tail(xs))

Regression(rows) ==
    LET n == Len(rows)
        sp == Sum([i \in 1..n |-> rows[i].sui_price])
        st == Sum([i \in 1..n |-> rows[i].tvl])
        sy == Sum([i \in 1..n |-> rows[i].apr])
        a == [i \in 1..n |-> n * rows[i].sui_price - sp]
        b == [i \in 1..n |-> n * rows[i].tvl - st]
        c == [i \in 1..n |-> n * rows[i].apr - sy]
        s11 == Sum([i \in 1..n |-> a[i] * a[i]])
        s12 == Sum([i \in 1..n |-> a[i] * b[i]])
        s22 == Sum([i \in 1..n |-> b[i] * b[i]])
        s1y == Sum([i \in 1..n |-> a[i] * c[i]])
        s2y == Sum([i \in 1..n |-> b[i] * c[i]])
        det == s11 * s22 - s12 * s12
    IN  [sumApr |-> sy,
         G  |-> IF det # 0
                THEN a[n] * (s22 * s1y - s12 * s2y) + b[n] * (s11 * s2y - s12 * s1y)
                ELSE IF s11 # 0 THEN a[n] * s1y
                ELSE IF s22 # 0 THEN b[n] * s2y
                ELSE 0,
         Dn |-> IF det # 0 THEN det
                ELSE IF s11 # 0 THEN s11
                ELSE IF s22 # 0 THEN s22
                ELSE 1]

\* variant: four records are taken to be enough
FitsFour(frame) == ~frame.isNone /\ Len(frame.rows) >= 4

\* line 135: the regression is attempted
Fits(frame) == ~frame.isNone /\ Len(frame.rows) >= 5

\* variant: >= in place of >
predict_optimal_stake_geq(frame) ==
    IF ~Fits(frame) THEN FALSE
    ELSE LET r == Regression(frame.rows)
         IN  10 * (r.sumApr * r.Dn + r.G) >= 11 * r.sumApr * r.Dn

\* predicted_apr[0] > avg_apr * 1.1, both sides multiplied by 10 * n * Dn
predict_optimal_stake(frame) ==
    IF ~Fits(frame) THEN FALSE
    ELSE LET r == Regression(frame.rows)
         IN  10 * (r.sumApr * r.Dn + r.G) > 11 * r.sumApr * r.Dn

(***************************************************************************)
(* Endpoints                                                               *)
(***************************************************************************)
DefaultVoloPool == <<"0", "x", "2", ":", ":", "s", "u", "i", ":", ":", "S", "U", "I">>

DefaultRewardsPool ==
    <<"0", "x", "9", "6", "d", "f", "0", "f", "c", "e", "3", "c", "4", "7",
    "1", "4", "8", "9", "f", "4", "d", "e", "b", "a", "a", "a", "7", "6",
    "2", "c", "f", "9", "6", "0", "b", "3", "d", "9", "7", "8", "2", "0",
    "b", "d", "1", "f", "3", "f", "0", "2", "5", "f", "f", "8", "1", "9",
    "0", "7", "3", "0", "e", "9", "5", "8", "c", "5">>

get_volo_data(up) == fetch_volo_data(up, DefaultVoloPool, DefaultDays)

\* request.args.get("user_address") is None or a string
get_rewards(addr, up) ==
    IF addr.isNone \/ addr.s = <<>> THEN ErrorRet("missing_address", 0, 400)
    ELSE fetch_rewards(up, DefaultRewardsPool)

\* request.get_json(): an empty or malformed body sent as JSON raises
\* BadRequest; a body whose mimetype is not JSON gives None or raises
\* UnsupportedMediaType, depending on the Flask version
GetJsonRaises(b) ==
    IF b.kind = "unparsable" THEN {TRUE}
    ELSE IF b.kind = "not_json" THEN {TRUE, FALSE}
    ELSE {FALSE}

\* "if not data"
Falsy(b) ==
    \/ b.kind \in {"not_json", "null", "false", "zero", "empty_string", "empty_array"}
    \/ b.kind = "object" /\ DOMAIN b.obj = {}

predict_schema ==
    [type |-> "object",
     properties |-> [apr |-> "num", tvl |-> "num", sui_price |-> "num"],
     required |-> {"apr", "tvl", "sui_price"}]

\* validate(instance=data, schema=predict_schema)
Validates(b, schema) ==
    /\ b.kind = schema.type
    /\ \A f \in schema.required : f \in DOMAIN b.obj
    /\ \A f \in DOMAIN schema.properties :
          f \in DOMAIN b.obj => b.obj[f].t = schema.properties[f]

\* variant: the observation is repeated to reach five records
BodyFramePadded(b) ==
    [isNone |-> FALSE,
     rows   |-> [k \in 1..5 |-> [apr |-> b.obj["apr"].v, tvl |-> b.obj["tvl"].v,
                                 sui_price |-> b.obj["sui_price"].v]]]

BodyFrame(b) ==
    [isNone |-> FALSE,
     rows   |-> <<[apr |-> b.obj["apr"].v, tvl |-> b.obj["tvl"].v,
                   sui_price |-> b.obj["sui_price"].v]>>]

predict(b, raises) ==
    IF raises THEN ErrorRet("predict_failed", 0, 500)
    ELSE IF Falsy(b) \/ ~Validates(b, predict_schema)
    THEN ErrorRet("invalid_input", 0, 400)
    ELSE PredictRet(predict_optimal_stake(BodyFrame(b)))

(***************************************************************************)
(* Inputs.                                                                 *)
(***************************************************************************)
Days == (-1..MaxDays) \cup {DefaultDays}

NowValues == {1700000}

OtherPool == <<"0", "x", "5", ":", ":", "u", "s", "d", "c", ":", ":", "U", "S", "D", "C">>

PoolIds == {DefaultVoloPool, OtherPool}

\* entries of the upstream pools array
PoolFull ==
    [coinType |-> JStr(DefaultVoloPool),
     supplyIncentiveApyInfo |-> [apy |-> JStr(<<"1", "0", ".", "0">>)],
     totalSupplyAmount |-> JStr(<<"2", "0", "0", "0", "0", "0", "0", "0", "0", "0">>),
     oracle |-> [price |-> JStr(<<"3", ".", "5">>)],
     lastUpdateTimestamp |-> JNum(DecInt(90000500))]

PoolNumeric ==
    [coinType |-> JStr(DefaultVoloPool),
     supplyIncentiveApyInfo |-> [apy |-> JNum(Dec(-1, <<55>>, 1))],
     totalSupplyAmount |-> JNum(DecInt(7000000)),
     oracle |-> [price |-> JNum(DecInt(4))],
     lastUpdateTimestamp |-> JNum(DecInt(999))]

PoolOnlyTimestamp ==
    [coinType |-> JStr(DefaultVoloPool),
     lastUpdateTimestamp |-> JNum(DecInt(172800000))]

PoolNoTimestamp ==
    [coinType |-> JStr(DefaultVoloPool),
     supplyIncentiveApyInfo |-> [apy |-> JStr(<<"1", "0", ".", "0">>)],
     totalSupplyAmount |-> JStr(<<"2", "0", "0", "0", "0", "0", "0", "0", "0", "0">>),
     oracle |-> [price |-> JStr(<<"3", ".", "5">>)]]

PoolStringTimestamp ==
    [coinType |-> JStr(DefaultVoloPool),
     supplyIncentiveApyInfo |-> [apy |-> JStr(<<"1", "0", ".", "0">>)],
     lastUpdateTimestamp |-> JStr(<<"1", "7", "0", "0", "0", "0", "0", "0", "0", "0", "0", "0", "0">>)]

PoolBadApy ==
    [coinType |-> JStr(DefaultVoloPool),
     supplyIncentiveApyInfo |-> [apy |-> JStr(<<"a", "b", "c">>)],
     lastUpdateTimestamp |-> JNum(DecInt(90000500))]

PoolEmptyInfo ==
    [coinType |-> JStr(DefaultVoloPool),
     supplyIncentiveApyInfo |-> EmptyDict,
     oracle |-> EmptyDict,
     lastUpdateTimestamp |-> JNum(DecInt(90000500))]

PoolOther ==
    [coinType |-> JStr(OtherPool),
     supplyIncentiveApyInfo |-> [apy |-> JStr(<<"2", ".", "2", "5">>)],
     lastUpdateTimestamp |-> JNum(DecInt(86400000))]

PoolNoCoinType ==
    [supplyIncentiveApyInfo |-> [apy |-> JStr(<<"1", "0", ".", "0">>)],
     lastUpdateTimestamp |-> JNum(DecInt(90000500))]

PoolDicts ==
    {PoolFull, PoolNumeric, PoolOnlyTimestamp, PoolNoTimestamp,
     PoolStringTimestamp, PoolBadApy, PoolEmptyInfo, PoolOther, PoolNoCoinType}

Obj(d) == [isDict |-> TRUE, d |-> d]

\* an array element that is not an object (null, a number, a string)
NotAnObject == [isDict |-> FALSE, d |-> EmptyDict]

SeqsUpTo(S, n) == UNION {[1..k -> S] : k \in 0..n}

Outcomes(entries, n) ==
    {[kind |-> "timeout", status |-> 0, data |-> <<>>],
     [kind |-> "transport", status |-> 0, data |-> <<>>]}
    \cup {[kind |-> "json", status |-> s, data |-> <<>>] : s \in {404, 429, 500, 503}}
    \cup {[kind |-> "badjson", status |-> s, data |-> <<>>] : s \in {200, 502}}
    \cup {[kind |-> "json", status |-> 200, data |-> d] : d \in SeqsUpTo(entries, n)}

PoolsOutcomes == Outcomes({Obj(d) : d \in PoolDicts} \cup {NotAnObject}, MaxPools)

NoOutcome == [kind |-> "none", status |-> 0, data |-> <<>>]

\* records of the upstream rewards array
RewardFull ==
    [pool |-> JStr(DefaultRewardsPool),
     coin_type |-> JStr(<<"0", "x", "a", "b", "c", ":", ":", "n", "a", "v", "x", ":", ":", "N", "A", "V", "X">>),
     amount |-> JStr(<<"2", "5", "0", "0", "0", "0", "0", "0", "0", "0">>),
     timestamp |-> JStr(<<"1", "7", "0", "0">>)]

RewardBare ==
    [pool |-> JStr(DefaultRewardsPool),
     coin_type |-> JStr(NavxSuffix),
     amount |-> JNum(DecInt(1500)),
     token_price |-> JNum(Dec(1, <<25>>, 2))]

RewardNoAmount ==
    [pool |-> JStr(DefaultRewardsPool),
     coin_type |-> JStr(<<"0", "x", "a", "b", "c", ":", ":", "n", "a", "v", "x", ":", ":", "N", "A", "V", "X">>)]

RewardOtherPool ==
    [pool |-> JStr(OtherPool),
     coin_type |-> JStr(<<"0", "x", "a", "b", "c", ":", ":", "n", "a", "v", "x", ":", ":", "N", "A", "V", "X">>),
     amount |-> JStr(<<"2", "5", "0", "0", "0", "0", "0", "0", "0", "0">>)]

RewardOtherSuffix ==
    [pool |-> JStr(DefaultRewardsPool),
     coin_type |-> JStr(<<"0", "x", "a", "b", "c", ":", ":", "n", "a", "v", "x", ":", ":", "n", "a", "v", "x">>),
     amount |-> JStr(<<"2", "5", "0", "0", "0", "0", "0", "0", "0", "0">>)]

RewardShortCoinType ==
    [pool |-> JStr(DefaultRewardsPool),
     coin_type |-> JStr(<<"N", "A", "V", "X">>),
     amount |-> JStr(<<"2", "5", "0", "0", "0", "0", "0", "0", "0", "0">>)]

RewardBadAmount ==
    [pool |-> JStr(DefaultRewardsPool),
     coin_type |-> JStr(<<"0", "x", "a", "b", "c", ":", ":", "n", "a", "v", "x", ":", ":", "N", "A", "V", "X">>),
     amount |-> JStr(<<"a", "b", "c">>)]

RewardNumericCoinType ==
    [pool |-> JStr(DefaultRewardsPool),
     coin_type |-> JNum(DecInt(7))]

RewardDicts ==
    {RewardFull, RewardBare, RewardNoAmount, RewardOtherPool, RewardOtherSuffix,
     RewardShortCoinType, RewardBadAmount, RewardNumericCoinType, EmptyDict}

RewardsOutcomes ==
    Outcomes({Obj(d) : d \in RewardDicts} \cup {NotAnObject}, MaxRewards)

RewardPoolIds == {DefaultRewardsPool, OtherPool}

NoAddress == [isNone |-> TRUE, s |-> <<>>]

Addresses ==
    {NoAddress, [isNone |-> FALSE, s |-> <<>>], [isNone |-> FALSE, s |-> <<"0", "x", "a", "1">>]}

\* rows of a data frame handed to predict_optimal_stake
SampleRows ==
    {[apr |-> 1, tvl |-> 1, sui_price |-> 1],
     [apr |-> -1, tvl |-> 1, sui_price |-> 1],
     [apr |-> 0, tvl |-> 1, sui_price |-> 1],
     [apr |-> 3, tvl |-> 2, sui_price |-> 2],
     [apr |-> 2, tvl |-> 1, sui_price |-> 2]}

Frames ==
    {NoneDf} \cup {[isNone |-> FALSE, rows |-> r] : r \in SeqsUpTo(SampleRows, MaxLen)}

\* JSON values of the fields of a predict body
BodyValues ==
    {[t |-> "num", v |-> n] : n \in {-5, 0, 5, 100}}
    \cup {[t |-> "str", v |-> 5], [t |-> "bool", v |-> 1], [t |-> "null", v |-> 0]}

BodyFields == {"apr", "tvl", "sui_price", "extra"}

BodyObjects == UNION {[F -> BodyValues] : F \in SUBSET BodyFields}

Bodies ==
    {[kind |-> k, obj |-> EmptyDict] :
        k \in {"unparsable", "not_json", "null", "false", "true", "zero", "number",
               "empty_string", "string", "empty_array", "array"}}
    \cup {[kind |-> "object", obj |-> o] : o \in BodyObjects}

NoBody == [kind |-> "none", obj |-> EmptyDict]

(***************************************************************************)
(* The state machine: one call per behaviour.                              *)
(***************************************************************************)
\* Init draws one call; the inputs a call does not read are left empty
Init ==
    /\ pc = "call"
    /\ ret = NoRet
    /\ fitted = FALSE
    /\ now \in NowValues
    /\ \/ /\ op = "simulate_historical_data"
          /\ latest_data \in PoolDicts
          /\ days \in Days
          /\ pool_id = <<>> /\ upstream = NoOutcome /\ user_address = NoAddress
          /\ df = NoneDf /\ body = NoBody
       \/ /\ op = "fetch_volo_data"
          /\ upstream \in PoolsOutcomes
          /\ pool_id \in PoolIds
          /\ days \in Days
          /\ latest_data = EmptyDict /\ user_address = NoAddress
          /\ df = NoneDf /\ body = NoBody
       \/ /\ op = "fetch_rewards"
          /\ upstream \in RewardsOutcomes
          /\ pool_id \in RewardPoolIds
          /\ user_address \in Addresses
          /\ days = 0 /\ latest_data = EmptyDict /\ df = NoneDf /\ body = NoBody
       \/ /\ op = "predict_optimal_stake"
          /\ df \in Frames
          /\ pool_id = <<>> /\ days = 0 /\ upstream = NoOutcome
          /\ latest_data = EmptyDict /\ user_address = NoAddress /\ body = NoBody
       \/ /\ op = "get_volo_data"
          /\ upstream \in PoolsOutcomes
          /\ pool_id = <<>> /\ days = 0 /\ latest_data = EmptyDict
          /\ user_address = NoAddress /\ df = NoneDf /\ body = NoBody
       \/ /\ op = "get_rewards"
          /\ upstream \in RewardsOutcomes
          /\ user_address \in Addresses
          /\ pool_id = <<>> /\ days = 0 /\ latest_data = EmptyDict
          /\ df = NoneDf /\ body = NoBody
       \/ /\ op = "predict"
          /\ body \in Bodies
          /\ pool_id = <<>> /\ days = 0 /\ upstream = NoOutcome
          /\ latest_data = EmptyDict /\ user_address = NoAddress /\ df = NoneDf

inputs == <<op, pool_id, days, now, upstream, latest_data, user_address, df, body>>

SimulateHistoricalData ==
    /\ pc = "call" /\ op = "simulate_historical_data"
    /\ LET sim == simulate_historical_data(latest_data, days)
       IN  ret' = [NoRet EXCEPT !.isNone = sim.isNone, !.rows = sim.rows]
    /\ pc' = "done"
    /\ UNCHANGED <<inputs, fitted>>

FetchVoloData ==
    /\ pc = "call" /\ op = "fetch_volo_data"
    /\ ret' = fetch_volo_data(upstream, pool_id, days)
    /\ pc' = "done"
    /\ UNCHANGED <<inputs, fitted>>

FetchRewards ==
    /\ pc = "call" /\ op = "fetch_rewards"
    /\ ret' = fetch_rewards(upstream, pool_id)
    /\ pc' = "done"
    /\ UNCHANGED <<inputs, fitted>>

PredictOptimalStake ==
    /\ pc = "call" /\ op = "predict_optimal_stake"
    /\ ret' = [NoRet EXCEPT !.predict = predict_optimal_stake(df)]
    /\ fitted' = Fits(df)
    /\ pc' = "done"
    /\ UNCHANGED inputs

GetVoloData ==
    /\ pc = "call" /\ op = "get_volo_data"
    /\ ret' = get_volo_data(upstream)
    /\ pc' = "done"
    /\ UNCHANGED <<inputs, fitted>>

GetRewards ==
    /\ pc = "call" /\ op = "get_rewards"
    /\ ret' = get_rewards(user_address, upstream)
    /\ pc' = "done"
    /\ UNCHANGED <<inputs, fitted>>

Predict ==
    /\ pc = "call" /\ op = "predict"
    /\ \E raises \in GetJsonRaises(body) :
          /\ ret' = predict(body, raises)
          /\ fitted' = (ret'.keys = {"predict"} /\ Fits(BodyFrame(body)))
    /\ pc' = "done"
    /\ UNCHANGED inputs

Next ==
    \/ SimulateHistoricalData
    \/ FetchVoloData
    \/ FetchRewards
    \/ PredictOptimalStake
    \/ GetVoloData
    \/ GetRewards
    \/ Predict

Spec == Init /\ [][Next]_vars

(***************************************************************************)
(* Properties.                                                             *)
(***************************************************************************)
Done(name) == pc = "done" /\ op = name

Answered200(up) == up.kind = "json" /\ up.status = 200

AllObjects(data) == \A i \in 1..Len(data) : data[i].isDict

HasCoinType(data, pid) ==
    \E i \in 1..Len(data) :
        "coinType" \in DOMAIN data[i].d /\ data[i].d["coinType"].s = pid

FirstWithCoinType(data, pid) ==
    data[CHOOSE i \in 1..Len(data) :
            /\ "coinType" \in DOMAIN data[i].d /\ data[i].d["coinType"].s = pid
            /\ \A j \in 1..(i - 1) :
                  ~("coinType" \in DOMAIN data[j].d /\ data[j].d["coinType"].s = pid)].d

\* x * 10^k
Shift(x, k) == Dec(x.s, Pow10Limbs(x.m, k), x.e)

\* a number, or a string float() reads
Coercible(j) == j.t = "num" \/ IsFloatLiteral(j.s)

\* C1: when the pools response is a 200 whose array has no entry with
\* coinType equal to pool_id, fetch_volo_data(pool_id, 30) is not an error:
\* it returns 200 with the hardcoded defaults as latest (apr 4.908) and a
\* 30-record series generated from the default snapshot.
C1_DefaultFallback ==
    (/\ Done("fetch_volo_data")
     /\ days = DefaultDays
     /\ Answered200(upstream)
     /\ AllObjects(upstream.data)
     /\ ~HasCoinType(upstream.data, pool_id))
    => /\ ret.status = 200
       /\ ret.keys = {"latest", "historical"}
       /\ DecEq(ret.latest.apr, Dec(1, <<4908>>, 3))
       /\ DecEq(ret.latest.sui_price, Dec(1, <<833514, 434>>, 8))
       /\ DecEq(Shift(ret.latest.tvl, 9), Dec(1, <<591258, 686454, 52969>>, 0))
       /\ Len(ret.rows) = 30
       /\ DecEq(ret.rows[1].apr, Dec(1, <<4908>>, 3))

\* the present sub-fields of a pool entry are well formed
WellFormedPool(d) ==
    /\ "lastUpdateTimestamp" \in DOMAIN d => d["lastUpdateTimestamp"].t = "num"
    /\ Coercible(RawApy(d))
    /\ Coercible(RawTotalSupply(d))
    /\ Coercible(RawPrice(d))

\* C2: when the pools response is a 200 with an entry whose coinType equals
\* pool_id, the first such entry gives the snapshot, a missing sub-field is
\* replaced by its default and never makes the result an error: the answer
\* is 200 with latest.apr equal to the entry's apy and the generated series.
C2_MatchedPool ==
    (/\ Done("fetch_volo_data")
     /\ days >= 1
     /\ Answered200(upstream)
     /\ AllObjects(upstream.data)
     /\ HasCoinType(upstream.data, pool_id)
     /\ WellFormedPool(FirstWithCoinType(upstream.data, pool_id)))
    => LET entry == FirstWithCoinType(upstream.data, pool_id)
       IN  /\ ret.status = 200
           /\ ret.keys = {"latest", "historical"}
           /\ DecEq(ret.latest.apr, PyFloat(RawApy(entry)))
           /\ Len(ret.rows) = days

\* a snapshot whose fields are all present as numbers or numeric strings,
\* the timestamp as a number
NumericSnapshot(d) ==
    /\ "lastUpdateTimestamp" \in DOMAIN d /\ d["lastUpdateTimestamp"].t = "num"
    /\ Coercible(RawApy(d))
    /\ Coercible(RawTotalSupply(d))
    /\ Coercible(RawPrice(d))

\* C3: for a snapshot with numeric fields, simulate_historical_data returns
\* exactly max(days, 0) records with, for every i in [0, days),
\* apr_i = apr*(1 + 0.01*(i mod 5)), tvl_i = tvl*(1 - 0.005*(i mod 7)),
\* sui_price_i = price*(1 + 0.02*(i mod 3)), timestamp_i = base - i days;
\* record 0 carries the base values exactly.
C3_SeriesFormula ==
    (Done("simulate_historical_data") /\ NumericSnapshot(latest_data))
    => LET apr == PyFloat(RawApy(latest_data))
           tvl == Dec(PyFloat(RawTotalSupply(latest_data)).s,
                      PyFloat(RawTotalSupply(latest_data)).m,
                      PyFloat(RawTotalSupply(latest_data)).e + 9)
           price == PyFloat(RawPrice(latest_data))
           base == LimbsToInt(latest_data["lastUpdateTimestamp"].n.m) \div 1000
       IN  /\ ~ret.isNone
           /\ Len(ret.rows) = (IF days > 0 THEN days ELSE 0)
           /\ \A i \in 0..(Len(ret.rows) - 1) :
                 LET row == ret.rows[i + 1]
                 IN  /\ DecEq(DecScale(row.apr, 100, 0),
                              DecScale(apr, 100 + (i % 5), 0))
                     /\ DecEq(DecScale(row.tvl, 1000, 0),
                              DecScale(tvl, 1000 - 5 * (i % 7), 0))
                     /\ DecEq(DecScale(row.sui_price, 100, 0),
                              DecScale(price, 100 + 2 * (i % 3), 0))
                     /\ row.timestamp = base - i * 86400
           /\ Len(ret.rows) >= 1 =>
                 /\ DecEq(ret.rows[1].apr, apr)
                 /\ DecEq(ret.rows[1].tvl, tvl)
                 /\ DecEq(ret.rows[1].sui_price, price)

C3_Witness ==
    /\ Done("simulate_historical_data")
    /\ NumericSnapshot(latest_data)
    /\ days = 8
    /\ Len(ret.rows) = 8
    /\ ~DecEq(ret.rows[7].tvl, ret.rows[1].tvl)
    /\ DecEq(ret.rows[8].tvl, ret.rows[1].tvl)
    /\ ~DecEq(ret.rows[5].apr, ret.rows[1].apr)
    /\ DecEq(ret.rows[6].apr, ret.rows[1].apr)

\* the upstream call failed, or a record of its array cannot be read
RewardsFault(up) ==
    \/ up.kind \in {"timeout", "transport", "badjson"}
    \/ up.status # 200
    \/ \E i \in 1..Len(up.data) : ~up.data[i].isDict

\* C4: fetch_rewards never fails the caller: whatever the upstream outcome
\* it returns status 200 with an array, empty when an error occurred; so
\* GET /api/rewards with a non-empty user_address answers 200 with an array
\* and its only other answer is 400 for a missing or empty user_address.
C4_RewardsNeverFail ==
    /\ Done("fetch_rewards") =>
          /\ ret.status = 200
          /\ ret.isArray
          /\ RewardsFault(upstream) => ret.rewards = <<>>
    /\ Done("get_rewards") =>
          /\ (~user_address.isNone /\ Len(user_address.s) > 0) =>
                /\ ret.status = 200
                /\ ret.isArray
                /\ RewardsFault(upstream) => ret.rewards = <<>>
          /\ ret.status # 200 =>
                /\ ret.status = 400
                /\ ret.keys = {"error"}
                /\ user_address.isNone \/ Len(user_address.s) = 0

C4_Witness ==
    /\ Done("get_rewards")
    /\ ~user_address.isNone /\ Len(user_address.s) > 0
    /\ upstream.kind = "timeout"
    /\ ret.status = 200
    /\ ret.rewards = <<>>

\* records whose fields, when present, have the upstream types
WellFormedRewards ==
    {RewardFull, RewardBare, RewardNoAmount, RewardOtherPool, RewardOtherSuffix,
     RewardShortCoinType, EmptyDict}

\* the coin type is some prefix followed by "::navx::NAVX"
HasNavxSuffix(chars) ==
    \E k \in 0..Len(chars) :
        chars = SubSeq(chars, 1, k)
                \o <<":", ":", "n", "a", "v", "x", ":", ":", "N", "A", "V", "X">>

\* indices of the upstream records that belong to the pool and the token
Wanted(data, pid) ==
    {i \in 1..Len(data) :
        /\ "pool" \in DOMAIN data[i].d /\ data[i].d["pool"].s = pid
        /\ "coin_type" \in DOMAIN data[i].d
        /\ HasNavxSuffix(data[i].d["coin_type"].s)}

\* the k-th smallest element of a set of indices
Nth(S, k) == CHOOSE i \in S : Cardinality({j \in S : j < i}) = k - 1

\* C5: on a 200 with well-formed records, fetch_rewards returns, in
\* upstream order, exactly one record for each upstream record with
\* pool == pool_id and coin_type ending in "::navx::NAVX", none for any
\* other; amount is the upstream amount / 1e9, token_price defaults to
\* 0.144426003098488.
C5_RewardsFilter ==
    (/\ Done("fetch_rewards")
     /\ Answered200(upstream)
     /\ \A i \in 1..Len(upstream.data) :
           upstream.data[i].isDict /\ upstream.data[i].d \in WellFormedRewards)
    => LET wanted == Wanted(upstream.data, pool_id)
       IN  /\ Len(ret.rewards) = Cardinality(wanted)
           /\ \A k \in 1..Len(ret.rewards) :
                 LET r == upstream.data[Nth(wanted, k)].d
                     out == ret.rewards[k]
                 IN  /\ DecEq(Shift(out.amount, 9),
                              IF "amount" \in DOMAIN r THEN PyFloat(r["amount"])
                              ELSE DecInt(0))
                     /\ DecEq(out.token_price,
                              IF "token_price" \in DOMAIN r THEN PyFloat(r["token_price"])
                              ELSE Dec(1, <<98488, 426003, 144>>, 15))
                     /\ "timestamp" \in DOMAIN r => out.timestamp = r["timestamp"]

C5_Witness ==
    /\ Done("fetch_rewards")
    /\ Answered200(upstream)
    /\ pool_id = DefaultRewardsPool
    /\ upstream.data = <<Obj(RewardOtherSuffix), Obj(RewardFull)>>
    /\ Len(ret.rewards) = 1
    /\ DecEq(ret.rewards[1].amount, Dec(1, <<25>>, 1))

\* C6: fetch_volo_data lets no fault through: it returns (body, status)
\* with status 200 or 500; an upstream status s other than 200 gives an
\* error body carrying s with 500, a timeout, transport or parse failure or
\* a failure of the generator gives an error body with 500, and an error
\* body holds neither latest nor historical data.
C6_PoolFaultsContained ==
    (Done("fetch_volo_data") \/ Done("get_volo_data"))
    => /\ ret.status \in {200, 500}
       /\ (upstream.kind \in {"json", "badjson"} /\ upstream.status # 200) =>
             /\ ret.status = 500
             /\ ret.keys = {"error"}
             /\ ret.error = "pools_http"
             /\ ret.code = upstream.status
       /\ (\/ upstream.kind \in {"timeout", "transport", "badjson"}
           \/ upstream.data # <<>> /\ ~upstream.data[1].isDict
           \/ /\ Done("get_volo_data") \/ pool_id = DefaultVoloPool
              /\ upstream.data = <<Obj(PoolBadApy)>>) =>
             /\ ret.status = 500
             /\ ret.keys = {"error"}
       /\ ret.status = 500 =>
             /\ ret.keys = {"error"}
             /\ ret.error # ""
             /\ ret.rows = <<>>
             /\ ret.latest = NoLatest
       /\ ret.status = 200 => ret.keys = {"latest", "historical"}

C6_Witness ==
    /\ Done("get_volo_data")
    /\ upstream.kind = "json"
    /\ upstream.status = 503
    /\ ret.status = 500
    /\ ret.code = 503

\* C7: predict_optimal_stake returns false, fitting no regression, when the
\* series is None or has fewer than 5 records (the empty series included);
\* 5 is the smallest length at which the regression is attempted.
C7_InsufficientData ==
    Done("predict_optimal_stake")
    => /\ (df.isNone \/ Len(df.rows) < 5) => (ret.predict = FALSE /\ ~fitted)
       /\ (~df.isNone /\ Len(df.rows) >= 5) => fitted

C7_Witness ==
    /\ Done("predict_optimal_stake")
    /\ ~df.isNone
    /\ Len(df.rows) = 4
    /\ \A i \in 1..3 : df.rows[i] = [apr |-> 1, tvl |-> 1, sui_price |-> 1]
    /\ df.rows[4] = [apr |-> 3, tvl |-> 2, sui_price |-> 2]
    /\ ret.predict = FALSE
    /\ ~fitted

\* all records of the frame share apr, tvl and sui_price
Flat(frame) ==
    /\ ~frame.isNone
    /\ \A i \in 1..Len(frame.rows) : frame.rows[i] = frame.rows[1]

\* C8 as stated: every flat series of at least 5 records gives false,
\* whatever its apr, zero and negative values included.
C8_FlatAlwaysFalse ==
    (Done("predict_optimal_stake") /\ Flat(df) /\ Len(df.rows) >= 5)
    => ret.predict = FALSE

\* C8: a flat series of at least 5 records gives false when its apr is zero
\* or positive, and true when its apr is negative (the predicted APR equals
\* the mean m, and m > 1.1 * m exactly when m < 0).
C8_FlatBySign ==
    (Done("predict_optimal_stake") /\ Flat(df) /\ Len(df.rows) >= 5)
    => ret.predict = (df.rows[1].apr < 0)

C8_Witness ==
    /\ Done("predict_optimal_stake")
    /\ Flat(df)
    /\ Len(df.rows) = 5
    /\ df.rows[1].apr = 0
    /\ ret.predict = FALSE

\* the body is a JSON object with numeric apr, tvl and sui_price
ValidBody(b) ==
    /\ b.kind = "object"
    /\ \A f \in {"apr", "tvl", "sui_price"} :
          f \in DOMAIN b.obj /\ b.obj[f].t = "num"

\* C9: POST /api/predict answers 400 with an error body whenever the body
\* is missing, empty, not a JSON object, lacks a required field or has a
\* non-numeric one; 200 with {predict} only for a valid body; 500 is not an
\* answer to an input-validation failure.
C9_InvalidBodyIs400 ==
    Done("predict")
    => /\ ~ValidBody(body) => (ret.status = 400 /\ ret.keys = {"error"})
       /\ ValidBody(body) => (ret.status = 200 /\ ret.keys = {"predict"})

\* C10: the predict endpoint hands predict_optimal_stake a one-record
\* series, so every valid body is answered 200 with predict == false and no
\* body is ever answered predict == true.
C10_EndpointAlwaysFalse ==
    Done("predict")
    => /\ ValidBody(body) =>
             /\ ret.status = 200
             /\ ret.keys = {"predict"}
             /\ ret.predict = FALSE
       /\ ret.predict = FALSE
       /\ ~fitted

C10_Witness ==
    /\ Done("predict")
    /\ ValidBody(body)
    /\ body.obj["apr"].v = -5
    /\ body.obj["sui_price"].v = 100
    /\ ret.status = 200
    /\ ret.predict = FALSE

====
